---- MODULE Spec2Model ----
(***************************************************************************)
(* The Weather page of src/src/App.jsx (tide-enabled component, lines      *)
(* 45-361): the submit handler fetchWeather with its three network calls   *)
(* (geocoding, weather, tides), the React state cells it writes, and the   *)
(* pure interpreter functions getWeatherDescription / getWeatherIcon.      *)
(*                                                                         *)
(* Strings that the code takes apart (the typed city, the coordinates the  *)
(* geocoder returns as text) are sequences of one-character strings.       *)
(* A nullable JavaScript value is a sequence of length 0 (null/undefined)  *)
(* or 1 (the value).  A step of the model is one synchronous run of        *)
(* JavaScript between two awaits: every fetch is awaited twice, once for   *)
(* the Response (status known, body in transit) and once for its body      *)
(* (response.json()), and other handlers run between the two.              *)
(***************************************************************************)
EXTENDS Integers, Sequences, FiniteSets, TLC

VARIABLES
    city,         \* useState("")    line 46: text of the input field
    weatherData,  \* useState(null)  line 47
    tideData,     \* useState(null)  line 48
    loading,      \* useState(false) line 49
    error,        \* useState("")    line 50
    inv,          \* the invocations of fetchWeather: position and locals
    last,         \* history: log of the invocation that completed last
    bypassed,     \* history: a submit event was delivered past the button
    twin,         \* a second Weather component (specification SpecTwin)
    probe,        \* input/output of the interpreter (specification SpecInterp)
    prev,         \* history: the outcome displayed when the running or last
                  \* submission started (specification SpecSeq)
    mini          \* the minimal Weather component of lines 368-545
                  \* (specification SpecMini)

vars ==
    <<city, weatherData, tideData, loading, error, inv, last, bypassed, twin,
      probe, prev, mini>>

----------------------------------------------------------------------------
(* Bounds of the model *)

MaxInFlight == 2     \* invocations of fetchWeather that can coexist
MaxCityLen == 2      \* length of a typed city
MaxExtremes == 7     \* length of the extremes list of the tide upstream
NegCodes == 2        \* how many codes below 0 the interpreter is given
MaxCode == 101       \* greatest weather code given to the interpreter

Slots == 1..MaxInFlight

----------------------------------------------------------------------------
(* Nullable values *)

null == <<>>
Some(v) == <<v>>

----------------------------------------------------------------------------
(* Strings *)

Marseille == <<"M", "a", "r", "s", "e", "i", "l", "l", "e">>

WhiteSpace == {" ", "\t", "\n"}

RECURSIVE trimStart(_)
trimStart(s) ==
    IF s = <<>> THEN s
    ELSE IF Head(s) \in WhiteSpace THEN trimStart(Tail(s)) ELSE s

RECURSIVE trimEnd(_)
trimEnd(s) ==
    IF s = <<>> THEN s
    ELSE IF s[Len(s)] \in WhiteSpace THEN trimEnd(SubSeq(s, 1, Len(s) - 1))
         ELSE s

\* String.prototype.trim
trim(s) == trimEnd(trimStart(s))

\* the variant that forgets trim(): city || "Marseille"
SearchCityNoTrim(c) == IF c # <<>> THEN c ELSE Marseille

\* line 170: const searchCity = city.trim() || "Marseille"
SearchCity(c) == IF trim(c) # <<>> THEN trim(c) ELSE Marseille

\* encodeURIComponent on the characters of the model: letters pass,
\* white space is percent-escaped
EscapeChar(ch) ==
    CASE ch = " "  -> <<"%", "2", "0">>
      [] ch = "\t" -> <<"%", "0", "9">>
      [] ch = "\n" -> <<"%", "0", "A">>
      [] OTHER     -> <<ch>>

RECURSIVE encodeURIComponent(_)
encodeURIComponent(s) ==
    IF s = <<>> THEN <<>>
    ELSE EscapeChar(Head(s)) \o encodeURIComponent(Tail(s))

Digits == {"0", "1", "2", "3", "4", "5", "6", "7", "8", "9"}

DigitVal(ch) ==
    CASE ch = "0" -> 0 [] ch = "1" -> 1 [] ch = "2" -> 2 [] ch = "3" -> 3
      [] ch = "4" -> 4 [] ch = "5" -> 5 [] ch = "6" -> 6 [] ch = "7" -> 7
      [] ch = "8" -> 8 [] ch = "9" -> 9

RECURSIVE parseDigits(_, _)
parseDigits(s, acc) ==
    IF s = <<>> \/ Head(s) \notin Digits THEN acc
    ELSE parseDigits(Tail(s), acc * 10 + DigitVal(Head(s)))

\* parseFloat on the coordinate strings of the model: an optional sign
\* followed by decimal digits (whole degrees)
parseFloat(s) ==
    IF s # <<>> /\ Head(s) = "-" THEN 0 - parseDigits(Tail(s), 0)
    ELSE parseDigits(s, 0)

----------------------------------------------------------------------------
(* WeatherInterpreter *)

\* lines 80-105: the object literal descriptions
descriptions(code) ==
    CASE code = 0  -> "Clear sky"
      [] code = 1  -> "Mainly clear"
      [] code = 2  -> "Partly cloudy"
      [] code = 3  -> "Overcast"
      [] code = 45 -> "Foggy"
      [] code = 48 -> "Depositing rime fog"
      [] code = 51 -> "Light drizzle"
      [] code = 53 -> "Moderate drizzle"
      [] code = 55 -> "Dense drizzle"
      [] code = 61 -> "Slight rain"
      [] code = 63 -> "Moderate rain"
      [] code = 65 -> "Heavy rain"
      [] code = 71 -> "Slight snow"
      [] code = 73 -> "Moderate snow"
      [] code = 75 -> "Heavy snow"
      [] code = 77 -> "Snow grains"
      [] code = 80 -> "Slight rain showers"
      [] code = 81 -> "Moderate rain showers"
      [] code = 82 -> "Violent rain showers"
      [] code = 85 -> "Slight snow showers"
      [] code = 86 -> "Heavy snow showers"
      [] code = 95 -> "Thunderstorm"
      [] code = 96 -> "Thunderstorm with slight hail"
      [] code = 99 -> "Thunderstorm with heavy hail"
      [] OTHER     -> ""   \* undefined: a missing key, which is falsy

\* the variant whose fallback replaces every code above the last threshold
\* of the icon cascade
getWeatherDescriptionCapped(code) ==
    IF code < 95 /\ descriptions(code) # "" THEN descriptions(code)
    ELSE "Unknown"

\* line 106: return descriptions[code] || "Unknown"
getWeatherDescription(code) ==
    IF descriptions(code) # "" THEN descriptions(code) ELSE "Unknown"

\* The symbols of lines 111-120, by name.  Rain and rain showers share one
\* symbol, snow and snow showers share one, and both night variants are the
\* moon.
SymSun == "sun"
SymMoon == "moon"
SymSunCloud == "sun-behind-small-cloud"
SymFog == "fog"
SymSunRain == "sun-behind-rain-cloud"
SymRain == "cloud-with-rain"
SymSnow == "cloud-with-snow"
SymStorm == "cloud-with-lightning-and-rain"
SymThermometer == "thermometer"

\* is_day arrives as the number 0 or 1 and is used as a condition
Truthy(n) == n # 0

\* the variant whose second clause swallows the first
getWeatherIconMerged(code, isDay) ==
    IF code <= 3 THEN (IF Truthy(isDay) THEN SymSunCloud ELSE SymMoon)
    ELSE IF code <= 48 THEN SymFog
    ELSE IF code <= 55 THEN SymSunRain
    ELSE IF code <= 65 THEN SymRain
    ELSE IF code <= 77 THEN SymSnow
    ELSE IF code <= 82 THEN SymRain
    ELSE IF code <= 86 THEN SymSnow
    ELSE IF code >= 95 THEN SymStorm
    ELSE SymThermometer

\* the variant whose thunderstorm clause starts one code early
getWeatherIconStormEarly(code, isDay) ==
    IF code = 0 THEN (IF Truthy(isDay) THEN SymSun ELSE SymMoon)
    ELSE IF code <= 3 THEN (IF Truthy(isDay) THEN SymSunCloud ELSE SymMoon)
    ELSE IF code <= 48 THEN SymFog
    ELSE IF code <= 55 THEN SymSunRain
    ELSE IF code <= 65 THEN SymRain
    ELSE IF code <= 77 THEN SymSnow
    ELSE IF code <= 82 THEN SymRain
    ELSE IF code <= 86 THEN SymSnow
    ELSE IF code >= 94 THEN SymStorm
    ELSE SymThermometer

\* lines 110-121
getWeatherIcon(code, isDay) ==
    IF code = 0 THEN (IF Truthy(isDay) THEN SymSun ELSE SymMoon)
    ELSE IF code <= 3 THEN (IF Truthy(isDay) THEN SymSunCloud ELSE SymMoon)
    ELSE IF code <= 48 THEN SymFog
    ELSE IF code <= 55 THEN SymSunRain
    ELSE IF code <= 65 THEN SymRain
    ELSE IF code <= 77 THEN SymSnow
    ELSE IF code <= 82 THEN SymRain
    ELSE IF code <= 86 THEN SymSnow
    ELSE IF code >= 95 THEN SymStorm
    ELSE SymThermometer

----------------------------------------------------------------------------
(* What the upstream services can answer.  A response is how the promise   *)
(* of fetch settled, the ok flag of the HTTP response, the message of the  *)
(* error a rejected fetch or a failed response.json() carries, and the     *)
(* parsed body.                                                            *)

TransportMsgs == {"Failed to fetch"}
JsonSyntaxMsg == "Unexpected end of JSON input"
UndefinedReadMsg ==
    "Cannot read properties of undefined (reading 'temperature_2m')"

Rejected(m) == [settled |-> "rejected", ok |-> FALSE, msg |-> m, json |-> null]
NotOk == [settled |-> "fulfilled", ok |-> FALSE, msg |-> "", json |-> null]
BadJson ==
    [settled |-> "fulfilled", ok |-> TRUE, msg |-> JsonSyntaxMsg, json |-> null]
Json(v) == [settled |-> "fulfilled", ok |-> TRUE, msg |-> "", json |-> Some(v)]

Failures == {Rejected(m) : m \in TransportMsgs} \cup {NotOk, BadJson}

GeoMatches ==
    { [lat |-> <<"4", "8">>, lon |-> <<"2">>, display_name |-> "Paris, France"],
      [lat |-> <<"-", "3", "3">>, lon |-> <<"1", "5", "1">>,
       display_name |-> "Sydney, Australia"] }

\* limit=1: the geocoder answers with at most one match
GeoResponses == Failures \cup {Json(<<>>)} \cup {Json(<<m>>) : m \in GeoMatches}

Readings ==
    { [temperature_2m |-> 21, apparent_temperature |-> 20,
       relative_humidity_2m |-> 40, wind_speed_10m |-> 12,
       pressure_msl |-> 1013, weather_code |-> 1, is_day |-> 1],
      [temperature_2m |-> 9, apparent_temperature |-> 6,
       relative_humidity_2m |-> 90, wind_speed_10m |-> 30,
       pressure_msl |-> 990, weather_code |-> 96, is_day |-> 0],
      [temperature_2m |-> 0 - 3, apparent_temperature |-> 0 - 7,
       relative_humidity_2m |-> 70, wind_speed_10m |-> 5,
       pressure_msl |-> 1020, weather_code |-> 90, is_day |-> 1] }

\* a 2xx body without the current object is the malformed answer
WeatherResponses ==
    Failures \cup {Json([current |-> null])}
             \cup {Json([current |-> Some(rd)]) : rd \in Readings}

\* two families of extremes lists: alternating High/Low with ascending
\* times, and other labels with descending times
Extreme(shape, i) ==
    IF shape = "ascending"
    THEN [type |-> IF i % 2 = 1 THEN "High" ELSE "Low", height |-> i,
          dt |-> 10 * i]
    ELSE [type |-> IF i % 2 = 1 THEN "high" ELSE "High", height |-> 0 - i,
          dt |-> 10 * (MaxExtremes + 1 - i)]

ExtremesLists ==
    { [i \in 1..n |-> Extreme(shape, i)] :
        n \in 0..MaxExtremes, shape \in {"ascending", "descending"} }

TideResponses ==
    Failures \cup {Json([extremes |-> null])}
             \cup {Json([extremes |-> Some(ex)]) : ex \in ExtremesLists}

----------------------------------------------------------------------------
(* The result of a call: a value returned or an Error thrown *)

Throw(m) == [threw |-> TRUE, message |-> m, value |-> null]
Return(v) == [threw |-> FALSE, message |-> "", value |-> Some(v)]

----------------------------------------------------------------------------
(* GeoResolver *)

\* lines 55-59: the request of getCoordinates
geoRequest(cityName) ==
    [service |-> "geocoding", q |-> encodeURIComponent(cityName),
     format |-> "json", limit |-> 1]

\* the variant without the check of an empty result: the first match of an
\* empty list reads as undefined, and parseFloat(undefined) is NaN, here 0
getCoordinatesUnchecked(r) ==
    IF r.settled = "rejected" THEN Throw(r.msg)
    ELSE IF ~r.ok THEN Throw("Failed to fetch location data")
    ELSE IF r.json = null THEN Throw(r.msg)
    ELSE LET data == r.json[1] IN
         IF Len(data) = 0
         THEN Return([lat |-> 0, lon |-> 0, name |-> ""])
         ELSE Return([lat |-> parseFloat(data[1].lat),
                      lon |-> parseFloat(data[1].lon),
                      name |-> data[1].display_name])

\* lines 55-75: getCoordinates once its fetch has settled with r
getCoordinates(r) ==
    IF r.settled = "rejected" THEN Throw(r.msg)
    ELSE IF ~r.ok THEN Throw("Failed to fetch location data")
    ELSE IF r.json = null THEN Throw(r.msg)
    ELSE LET data == r.json[1] IN
         IF Len(data) = 0
         THEN Throw("City not found. Please check the spelling.")
         ELSE Return([lat |-> parseFloat(data[1].lat),
                      lon |-> parseFloat(data[1].lon),
                      name |-> data[1].display_name])

----------------------------------------------------------------------------
(* WeatherFetcher *)

\* lines 176-178
weatherRequest(location) ==
    [service |-> "forecast", latitude |-> location.lat,
     longitude |-> location.lon]

\* lines 186-202: the object given to setWeatherData
weatherRecord(location, current) ==
    [location    |-> location.name,
     lat         |-> location.lat,
     lon         |-> location.lon,
     temperature |-> current.temperature_2m,
     feelsLike   |-> current.apparent_temperature,
     humidity    |-> current.relative_humidity_2m,
     windSpeed   |-> current.wind_speed_10m,
     pressure    |-> current.pressure_msl,
     weatherCode |-> current.weather_code,
     isDay       |-> current.is_day,
     description |-> getWeatherDescription(current.weather_code),
     icon        |-> getWeatherIcon(current.weather_code, current.is_day)]

\* the variant that does not look at weatherResponse.ok and takes the body
\* of a non-2xx answer for a reading
weatherResultNoOkCheck(r, location) ==
    IF r.settled = "rejected" THEN Throw(r.msg)
    ELSE IF ~r.ok
    THEN Return(weatherRecord(location,
                  [temperature_2m |-> 0, apparent_temperature |-> 0,
                   relative_humidity_2m |-> 0, wind_speed_10m |-> 0,
                   pressure_msl |-> 0, weather_code |-> 0, is_day |-> 0]))
    ELSE IF r.json = null THEN Throw(r.msg)
    ELSE IF r.json[1].current = null THEN Throw(UndefinedReadMsg)
    ELSE Return(weatherRecord(location, r.json[1].current[1]))

\* lines 176-202: the weather fetch of fetchWeather once it has settled
weatherResult(r, location) ==
    IF r.settled = "rejected" THEN Throw(r.msg)
    ELSE IF ~r.ok THEN Throw("Failed to fetch weather data")
    ELSE IF r.json = null THEN Throw(r.msg)
    ELSE IF r.json[1].current = null THEN Throw(UndefinedReadMsg)
    ELSE Return(weatherRecord(location, r.json[1].current[1]))

----------------------------------------------------------------------------
(* TideFetcher *)

TideWindow == 86400 * 2

\* the variant that asks for the tides of the mirrored point
tideRequestSwapped(lat, lon) ==
    [service |-> "tides", lat |-> lon, lon |-> lat, length |-> TideWindow]

\* lines 127-133; the start time of the window is the clock, left out
tideRequest(lat, lon) ==
    [service |-> "tides", lat |-> lat, lon |-> lon, length |-> TideWindow]

\* lines 147-151
tideOf(extreme) ==
    [type   |-> IF extreme.type = "High" THEN "High Tide" ELSE "Low Tide",
     height |-> extreme.height,
     time   |-> extreme.dt * 1000]

TideSlice == 6

\* the variant that keeps the last n elements
sliceLast(s, n) ==
    SubSeq(s, IF Len(s) < n THEN 1 ELSE Len(s) - n + 1, Len(s))

\* Array.prototype.slice(0, n)
slice(s, n) == SubSeq(s, 1, IF Len(s) < n THEN Len(s) ELSE n)

\* the variant that lets a non-2xx answer escape as an error
fetchTideDataStrict(r) ==
    IF r.settled = "rejected" THEN Return(null)
    ELSE IF ~r.ok THEN Throw("Failed to fetch tide data")
    ELSE IF r.json = null THEN Return(null)
    ELSE LET extremes == r.json[1].extremes IN
         IF extremes = null \/ Len(extremes[1]) = 0 THEN Return(null)
         ELSE Return(Some(slice([i \in 1..Len(extremes[1]) |->
                                    tideOf(extremes[1][i])], TideSlice)))

\* lines 124-158: fetchTideData once its fetch has settled with r; the
\* try/catch turns every error into null
fetchTideData(r) ==
    IF r.settled = "rejected" THEN Return(null)
    ELSE IF ~r.ok THEN Return(null)
    ELSE IF r.json = null THEN Return(null)
    ELSE LET extremes == r.json[1].extremes IN
         IF extremes = null \/ Len(extremes[1]) = 0 THEN Return(null)
         ELSE Return(Some(slice([i \in 1..Len(extremes[1]) |->
                                    tideOf(extremes[1][i])], TideSlice)))

----------------------------------------------------------------------------
(* The component: its state cells, the invocations of fetchWeather in      *)
(* flight, and the log of the invocation that completed last.  The         *)
(* handlers are functions from component to component, so that the same    *)
(* handler code drives the component and its twin.                         *)

IdleInv ==
    [pc |-> "idle", input |-> <<>>, searchCity |-> <<>>, location |-> null,
     calls |-> <<>>, resps |-> <<>>]

\* lines 46-50: the initial values of the state cells
InitComp(c) ==
    [city |-> c, weatherData |-> null, tideData |-> null, loading |-> FALSE,
     error |-> "", inv |-> [p \in Slots |-> IdleInv], last |-> null]

\* line 224: onChange={(e) => setCity(e.target.value)}
onChange(c, value) == [c EXCEPT !.city = value]

\* line 227: <button type="submit" disabled={loading}>
SubmitNeverDisabled(l) == FALSE

SubmitDisabled(l) == l

\* the variant that aborts the invocations already running when a new one
\* starts
fetchWeatherStartCancelling(c, p) ==
    [c EXCEPT
       !.loading = TRUE,
       !.error = "",
       !.weatherData = null,
       !.tideData = null,
       !.inv = [q \in Slots |->
                  IF q = p
                  THEN [pc |-> "geo", input |-> c.city,
                        searchCity |-> SearchCity(c.city), location |-> null,
                        calls |-> <<geoRequest(SearchCity(c.city))>>,
                        resps |-> <<>>]
                  ELSE IdleInv],
       !.last = null]

\* the variants that leave one cell of the previous outcome in place
fetchWeatherStartKeepsWeather(c, p) ==
    [c EXCEPT
       !.loading = TRUE,
       !.error = "",
       !.tideData = null,
       !.inv[p] = [pc |-> "geo", input |-> c.city,
                   searchCity |-> SearchCity(c.city), location |-> null,
                   calls |-> <<geoRequest(SearchCity(c.city))>>,
                   resps |-> <<>>],
       !.last = null]

fetchWeatherStartKeepsError(c, p) ==
    [c EXCEPT
       !.loading = TRUE,
       !.weatherData = null,
       !.tideData = null,
       !.inv[p] = [pc |-> "geo", input |-> c.city,
                   searchCity |-> SearchCity(c.city), location |-> null,
                   calls |-> <<geoRequest(SearchCity(c.city))>>,
                   resps |-> <<>>],
       !.last = null]

fetchWeatherStartKeepsTides(c, p) ==
    [c EXCEPT
       !.loading = TRUE,
       !.error = "",
       !.weatherData = null,
       !.inv[p] = [pc |-> "geo", input |-> c.city,
                   searchCity |-> SearchCity(c.city), location |-> null,
                   calls |-> <<geoRequest(SearchCity(c.city))>>,
                   resps |-> <<>>],
       !.last = null]

\* lines 160-173 and 55-59: fetchWeather from its start to its first await,
\* the geocoding fetch of getCoordinates
fetchWeatherStart(c, p) ==
    [c EXCEPT
       !.loading = TRUE,
       !.error = "",
       !.weatherData = null,
       !.tideData = null,
       !.inv[p] = [pc |-> "geo", input |-> c.city,
                   searchCity |-> SearchCity(c.city), location |-> null,
                   calls |-> <<geoRequest(SearchCity(c.city))>>,
                   resps |-> <<>>],
       !.last = null]

\* what the log keeps of an invocation that ends on response r
LogOf(i, r, threw, message) ==
    [input |-> i.input, searchCity |-> i.searchCity, calls |-> i.calls,
     resps |-> Append(i.resps, r), threw |-> threw, message |-> message]

\* the variant that reports every failure with one generic text
catchMessageGeneric(message) == "Something went wrong"

\* line 208: setError(err.message)
catchMessage(message) == message

\* the variant whose catch path leaves loading set
catchFinallyNoReset(c, p, message, r) ==
    [c EXCEPT
       !.error = catchMessage(message),
       !.inv[p] = IdleInv,
       !.last = Some(LogOf(c.inv[p], r, TRUE, message))]

\* lines 207-211: catch (err) { setError(err.message) } finally
\* { setLoading(false) }, which ends the invocation
catchFinally(c, p, message, r) ==
    [c EXCEPT
       !.error = catchMessage(message),
       !.loading = FALSE,
       !.inv[p] = IdleInv,
       !.last = Some(LogOf(c.inv[p], r, TRUE, message))]

\* lines 61, 135, 180: a Response that passes the ok test has its body read
\* by an awaited response.json().  Of a response r the first await sees
\* r.settled and r.ok (and r.msg when rejected), the second r.json (and
\* r.msg when the body does not parse).
BodyPending(r) == r.settled = "fulfilled" /\ r.ok

\* lines 65-178: the continuation of fetchWeather when the geocoding fetch
\* has ended with r (rejected, not ok, or its body read), to the await of
\* the weather fetch
onGeoSettled(c, p, r) ==
    LET res == getCoordinates(r) IN
    IF res.threw THEN catchFinally(c, p, res.message, r)
    ELSE [c EXCEPT
            !.inv[p] = [@ EXCEPT
               !.pc = "weather",
               !.location = res.value,
               !.calls = Append(@, weatherRequest(res.value[1])),
               !.resps = Append(@, r)]]

\* lines 55-65: the geocoding fetch has settled with the Response r; when
\* it is ok, getCoordinates awaits response.json() and writes nothing
onGeoFetched(c, p, r) ==
    IF BodyPending(r)
    THEN [c EXCEPT !.inv[p] = [@ EXCEPT !.pc = "geoBody"]]
    ELSE onGeoSettled(c, p, r)

\* the variant that leaves Loading as soon as the weather is known
onWeatherSettledEarly(c, p, r) ==
    LET loc == c.inv[p].location[1]
        res == weatherResult(r, loc) IN
    IF res.threw THEN catchFinally(c, p, res.message, r)
    ELSE [c EXCEPT
            !.weatherData = res.value,
            !.loading = FALSE,
            !.inv[p] = [@ EXCEPT
               !.pc = "tide",
               !.calls = Append(@, tideRequest(loc.lat, loc.lon)),
               !.resps = Append(@, r)]]

\* lines 180-205 and 127-133: the continuation when the weather fetch has
\* ended with r (rejected, not ok, or its body read), to the await of the
\* tide fetch inside fetchTideData
onWeatherSettled(c, p, r) ==
    LET loc == c.inv[p].location[1]
        res == weatherResult(r, loc) IN
    IF res.threw THEN catchFinally(c, p, res.message, r)
    ELSE [c EXCEPT
            !.weatherData = res.value,
            !.inv[p] = [@ EXCEPT
               !.pc = "tide",
               !.calls = Append(@, tideRequest(loc.lat, loc.lon)),
               !.resps = Append(@, r)]]

\* lines 176-184: the weather fetch has settled with the Response r; when
\* it is ok, fetchWeather awaits weatherResponse.json() and writes nothing
onWeatherFetched(c, p, r) ==
    IF BodyPending(r)
    THEN [c EXCEPT !.inv[p] = [@ EXCEPT !.pc = "weatherBody"]]
    ELSE onWeatherSettled(c, p, r)

\* lines 135-157 and 205-211: the continuation when the tide fetch has
\* ended with r (rejected, not ok, or its body read), to the end of
\* fetchWeather.  The await of fetchTideData stands inside the try of
\* fetchWeather.
onTideSettled(c, p, r) ==
    LET res == fetchTideData(r) IN
    IF res.threw THEN catchFinally(c, p, res.message, r)
    ELSE [c EXCEPT
            !.tideData = res.value[1],
            !.loading = FALSE,
            !.inv[p] = IdleInv,
            !.last = Some(LogOf(c.inv[p], r, FALSE, ""))]

\* lines 131-140: the tide fetch has settled with the Response r; when it
\* is ok, fetchTideData awaits response.json() and writes nothing
onTideFetched(c, p, r) ==
    IF BodyPending(r)
    THEN [c EXCEPT !.inv[p] = [@ EXCEPT !.pc = "tideBody"]]
    ELSE onTideSettled(c, p, r)

----------------------------------------------------------------------------
(* The minimal component (lines 368-545): no tide cell, no tide fetch *)

\* lines 369-372: the initial values of its state cells; pc and location are
\* the position and the local of its one invocation of fetchWeather
MiniInitComp(c) ==
    [city |-> c, weatherData |-> null, loading |-> FALSE, error |-> "",
     pc |-> "idle", location |-> null, calls |-> <<>>, done |-> FALSE]

\* line 500: onChange={(e) => setCity(e.target.value)}
miniOnChange(m, value) == [m EXCEPT !.city = value]

\* line 504: <button type="submit" disabled={loading}>
miniSubmitDisabled(l) == l

\* line 453: const searchCity = city.trim() || "Marseille"
miniSearchCity(c) == IF trim(c) # <<>> THEN trim(c) ELSE Marseille

\* lines 376-380
miniGeoRequest(cityName) ==
    [service |-> "geocoding", q |-> encodeURIComponent(cityName),
     format |-> "json", limit |-> 1]

\* lines 376-396: getCoordinates once its fetch has settled with r
miniGetCoordinates(r) ==
    IF r.settled = "rejected" THEN Throw(r.msg)
    ELSE IF ~r.ok THEN Throw("Failed to fetch location data")
    ELSE IF r.json = null THEN Throw(r.msg)
    ELSE LET data == r.json[1] IN
         IF Len(data) = 0
         THEN Throw("City not found. Please check the spelling.")
         ELSE Return([lat |-> parseFloat(data[1].lat),
                      lon |-> parseFloat(data[1].lon),
                      name |-> data[1].display_name])

\* lines 401-426: the object literal descriptions
miniDescriptions(code) ==
    CASE code = 0  -> "Clear sky"
      [] code = 1  -> "Mainly clear"
      [] code = 2  -> "Partly cloudy"
      [] code = 3  -> "Overcast"
      [] code = 45 -> "Foggy"
      [] code = 48 -> "Depositing rime fog"
      [] code = 51 -> "Light drizzle"
      [] code = 53 -> "Moderate drizzle"
      [] code = 55 -> "Dense drizzle"
      [] code = 61 -> "Slight rain"
      [] code = 63 -> "Moderate rain"
      [] code = 65 -> "Heavy rain"
      [] code = 71 -> "Slight snow"
      [] code = 73 -> "Moderate snow"
      [] code = 75 -> "Heavy snow"
      [] code = 77 -> "Snow grains"
      [] code = 80 -> "Slight rain showers"
      [] code = 81 -> "Moderate rain showers"
      [] code = 82 -> "Violent rain showers"
      [] code = 85 -> "Slight snow showers"
      [] code = 86 -> "Heavy snow showers"
      [] code = 95 -> "Thunderstorm"
      [] code = 96 -> "Thunderstorm with slight hail"
      [] code = 99 -> "Thunderstorm with heavy hail"
      [] OTHER     -> ""

\* line 427: return descriptions[code] || "Unknown"
miniGetWeatherDescription(code) ==
    IF miniDescriptions(code) # "" THEN miniDescriptions(code) ELSE "Unknown"

\* lines 431-442
miniGetWeatherIcon(code, isDay) ==
    IF code = 0 THEN (IF Truthy(isDay) THEN SymSun ELSE SymMoon)
    ELSE IF code <= 3 THEN (IF Truthy(isDay) THEN SymSunCloud ELSE SymMoon)
    ELSE IF code <= 48 THEN SymFog
    ELSE IF code <= 55 THEN SymSunRain
    ELSE IF code <= 65 THEN SymRain
    ELSE IF code <= 77 THEN SymSnow
    ELSE IF code <= 82 THEN SymRain
    ELSE IF code <= 86 THEN SymSnow
    ELSE IF code >= 95 THEN SymStorm
    ELSE SymThermometer

\* lines 459-461
miniWeatherRequest(location) ==
    [service |-> "forecast", latitude |-> location.lat,
     longitude |-> location.lon]

\* lines 469-483: the object given to setWeatherData
miniWeatherRecord(location, current) ==
    [location    |-> location.name,
     temperature |-> current.temperature_2m,
     feelsLike   |-> current.apparent_temperature,
     humidity    |-> current.relative_humidity_2m,
     windSpeed   |-> current.wind_speed_10m,
     pressure    |-> current.pressure_msl,
     weatherCode |-> current.weather_code,
     isDay       |-> current.is_day,
     description |-> miniGetWeatherDescription(current.weather_code),
     icon        |-> miniGetWeatherIcon(current.weather_code, current.is_day)]

\* the variant that words the failure of the weather fetch differently
miniWeatherResultReworded(r, location) ==
    IF r.settled = "rejected" THEN Throw(r.msg)
    ELSE IF ~r.ok THEN Throw("Failed to fetch weather")
    ELSE IF r.json = null THEN Throw(r.msg)
    ELSE IF r.json[1].current = null THEN Throw(UndefinedReadMsg)
    ELSE Return(miniWeatherRecord(location, r.json[1].current[1]))

\* lines 459-483: the weather fetch once it has settled with r
miniWeatherResult(r, location) ==
    IF r.settled = "rejected" THEN Throw(r.msg)
    ELSE IF ~r.ok THEN Throw("Failed to fetch weather data")
    ELSE IF r.json = null THEN Throw(r.msg)
    ELSE IF r.json[1].current = null THEN Throw(UndefinedReadMsg)
    ELSE Return(miniWeatherRecord(location, r.json[1].current[1]))

\* lines 444-456 and 376-380: fetchWeather from its start to its first
\* await
miniFetchWeatherStart(m) ==
    [m EXCEPT
       !.loading = TRUE,
       !.error = "",
       !.weatherData = null,
       !.pc = "geo",
       !.location = null,
       !.calls = <<miniGeoRequest(miniSearchCity(m.city))>>,
       !.done = FALSE]

\* lines 484-488: catch (err) { setError(err.message) } finally
\* { setLoading(false) }
miniCatchFinally(m, message) ==
    [m EXCEPT
       !.error = message,
       !.loading = FALSE,
       !.pc = "idle",
       !.done = TRUE]

\* lines 386-461: the continuation when the geocoding fetch has ended with
\* r (rejected, not ok, or its body read)
miniOnGeoSettled(m, r) ==
    LET res == miniGetCoordinates(r) IN
    IF res.threw THEN miniCatchFinally(m, res.message)
    ELSE [m EXCEPT
            !.pc = "weather",
            !.location = res.value,
            !.calls = Append(@, miniWeatherRequest(res.value[1]))]

\* lines 376-386: the geocoding fetch has settled with the Response r; when
\* it is ok, getCoordinates awaits response.json()
miniOnGeoFetched(m, r) ==
    IF BodyPending(r)
    THEN [m EXCEPT !.pc = "geoBody"]
    ELSE miniOnGeoSettled(m, r)

\* lines 463-488: the continuation when the weather fetch has ended with r
\* (rejected, not ok, or its body read), to the end of fetchWeather
miniOnWeatherSettled(m, r) ==
    LET res == miniWeatherResult(r, m.location[1]) IN
    IF res.threw THEN miniCatchFinally(m, res.message)
    ELSE [m EXCEPT
            !.weatherData = res.value,
            !.loading = FALSE,
            !.pc = "idle",
            !.done = TRUE]

\* lines 459-467: the weather fetch has settled with the Response r; when
\* it is ok, fetchWeather awaits weatherResponse.json()
miniOnWeatherFetched(m, r) ==
    IF BodyPending(r)
    THEN [m EXCEPT !.pc = "weatherBody"]
    ELSE miniOnWeatherSettled(m, r)

----------------------------------------------------------------------------
(* Inputs *)

Chars == {" ", "P"}

RECURSIVE StringsUpTo(_)
StringsUpTo(n) ==
    IF n = 0 THEN {<<>>}
    ELSE LET S == StringsUpTo(n - 1) IN
         S \cup {Append(s, ch) : s \in {t \in S : Len(t) = n - 1}, ch \in Chars}

\* what the user can type: every short text, and the default place by name
Cities == StringsUpTo(MaxCityLen) \cup {Marseille}

BlankCities == {c \in Cities : \A i \in 1..Len(c) : c[i] \in WhiteSpace}

Codes == (0 - NegCodes)..MaxCode

\* the smaller input sets of the specification with overlapping invocations
OverlapCities == {<<>>, <<"P">>}
OverlapGeoResponses == {Json(<<>>)} \cup {Json(<<m>>) : m \in GeoMatches}
OverlapWeatherResponses ==
    {NotOk} \cup {Json([current |-> Some(rd)]) :
                    rd \in {x \in Readings : x.weather_code # 90}}
OverlapTideResponses ==
    {NotOk, Json([extremes |-> Some(<<Extreme("ascending", 1)>>)])}

----------------------------------------------------------------------------
(* The state machine *)

Comp ==
    [city |-> city, weatherData |-> weatherData, tideData |-> tideData,
     loading |-> loading, error |-> error, inv |-> inv, last |-> last]

Becomes(c) ==
    /\ city' = c.city
    /\ weatherData' = c.weatherData
    /\ tideData' = c.tideData
    /\ loading' = c.loading
    /\ error' = c.error
    /\ inv' = c.inv
    /\ last' = c.last

IdleProbe ==
    [code |-> 0, isDay |-> 0, description |-> "", icon |-> "",
     applied |-> FALSE]

\* the state after construction (lines 46-50), with the text c in the
\* input field and the interpreter input pr
InitWith(c, pr) ==
    /\ city = c
    /\ weatherData = null
    /\ tideData = null
    /\ loading = FALSE
    /\ error = ""
    /\ inv = [p \in Slots |-> IdleInv]
    /\ last = null
    /\ bypassed = FALSE
    /\ twin = InitComp(Marseille)
    /\ probe = pr
    /\ prev = "Idle"
    /\ mini = MiniInitComp(<<>>)

Init == InitWith(<<>>, IdleProbe)

InFlight == {p \in Slots : inv[p].pc # "idle"}

\* an invocation has no name in the code: a new one takes the least free slot
FreeSlot == CHOOSE p \in Slots \ InFlight : \A q \in Slots \ InFlight : p <= q

\* the user edits the input field (line 224)
SetCityIn(S) ==
    /\ \E v \in S : v # city /\ Becomes(onChange(Comp, v))
    /\ UNCHANGED <<bypassed, twin, probe, prev, mini>>

SetCity == SetCityIn(Cities)

\* the user submits the form through its submit button, which line 227
\* disables while loading (a disabled default button also blocks the
\* implicit submission by the Enter key)
ClickSubmit ==
    /\ ~SubmitDisabled(loading)
    /\ InFlight # Slots
    /\ Becomes(fetchWeatherStart(Comp, FreeSlot))
    /\ UNCHANGED <<bypassed, twin, probe, prev, mini>>

\* a submit event reaches the form's onSubmit (line 218) although the
\* button is disabled: form.requestSubmit() or a dispatched event.
\* fetchWeather itself (lines 160-166) tests nothing before it starts.
DispatchSubmit ==
    /\ SubmitDisabled(loading)
    /\ InFlight # Slots
    /\ Becomes(fetchWeatherStart(Comp, FreeSlot))
    /\ bypassed' = TRUE
    /\ UNCHANGED <<twin, probe, prev, mini>>

\* the promise of a fetch settles: rejected, or fulfilled with a Response
\* whose status is known and whose body is still to be read
GeoSettles(p, R) ==
    /\ inv[p].pc = "geo"
    /\ \E r \in R : Becomes(onGeoFetched(Comp, p, r))
    /\ UNCHANGED <<bypassed, twin, probe, prev, mini>>

WeatherSettles(p, R) ==
    /\ inv[p].pc = "weather"
    /\ \E r \in R : Becomes(onWeatherFetched(Comp, p, r))
    /\ UNCHANGED <<bypassed, twin, probe, prev, mini>>

TideSettles(p, R) ==
    /\ inv[p].pc = "tide"
    /\ \E r \in R : Becomes(onTideFetched(Comp, p, r))
    /\ UNCHANGED <<bypassed, twin, probe, prev, mini>>

\* the responses of R whose body is read
Bodies(R) == {r \in R : BodyPending(r)}

\* the promise of response.json() settles: the body of the Response has
\* been read and parsed, or has failed to parse
GeoBodyRead(p, R) ==
    /\ inv[p].pc = "geoBody"
    /\ \E r \in Bodies(R) : Becomes(onGeoSettled(Comp, p, r))
    /\ UNCHANGED <<bypassed, twin, probe, prev, mini>>

WeatherBodyRead(p, R) ==
    /\ inv[p].pc = "weatherBody"
    /\ \E r \in Bodies(R) : Becomes(onWeatherSettled(Comp, p, r))
    /\ UNCHANGED <<bypassed, twin, probe, prev, mini>>

TideBodyRead(p, R) ==
    /\ inv[p].pc = "tideBody"
    /\ \E r \in Bodies(R) : Becomes(onTideSettled(Comp, p, r))
    /\ UNCHANGED <<bypassed, twin, probe, prev, mini>>

\* The component driven through its form controls
Next ==
    \/ SetCity
    \/ ClickSubmit
    \/ \E p \in Slots : GeoSettles(p, GeoResponses)
    \/ \E p \in Slots : WeatherSettles(p, WeatherResponses)
    \/ \E p \in Slots : TideSettles(p, TideResponses)
    \/ \E p \in Slots : GeoBodyRead(p, GeoResponses)
    \/ \E p \in Slots : WeatherBodyRead(p, WeatherResponses)
    \/ \E p \in Slots : TideBodyRead(p, TideResponses)

Spec == Init /\ [][Next]_vars

\* every issued network call eventually settles, and the body of every
\* Response is eventually read
FairSpec ==
    /\ Spec
    /\ \A p \in Slots : WF_vars(GeoSettles(p, GeoResponses))
    /\ \A p \in Slots : WF_vars(WeatherSettles(p, WeatherResponses))
    /\ \A p \in Slots : WF_vars(TideSettles(p, TideResponses))
    /\ \A p \in Slots : WF_vars(GeoBodyRead(p, GeoResponses))
    /\ \A p \in Slots : WF_vars(WeatherBodyRead(p, WeatherResponses))
    /\ \A p \in Slots : WF_vars(TideBodyRead(p, TideResponses))

\* The component when submit events also arrive past the disabled button
NextOverlap ==
    \/ SetCityIn(OverlapCities)
    \/ ClickSubmit
    \/ DispatchSubmit
    \/ \E p \in Slots : GeoSettles(p, OverlapGeoResponses)
    \/ \E p \in Slots : WeatherSettles(p, OverlapWeatherResponses)
    \/ \E p \in Slots : TideSettles(p, OverlapTideResponses)
    \/ \E p \in Slots : GeoBodyRead(p, OverlapGeoResponses)
    \/ \E p \in Slots : WeatherBodyRead(p, OverlapWeatherResponses)
    \/ \E p \in Slots : TideBodyRead(p, OverlapTideResponses)

SpecOverlap == Init /\ [][NextOverlap]_vars

\* The component driven through its form controls, with the outcome that
\* each submission finds on the display remembered
SeqOutcome ==
    IF last = null THEN "Idle"
    ELSE IF last[1].threw THEN "Failure" ELSE "Success"

SeqSubmit ==
    /\ ~SubmitDisabled(loading)
    /\ InFlight # Slots
    /\ Becomes(fetchWeatherStart(Comp, FreeSlot))
    /\ prev' = SeqOutcome
    /\ UNCHANGED <<bypassed, twin, probe, mini>>

NextSeq ==
    \/ SetCity
    \/ SeqSubmit
    \/ \E p \in Slots : GeoSettles(p, GeoResponses)
    \/ \E p \in Slots : WeatherSettles(p, WeatherResponses)
    \/ \E p \in Slots : TideSettles(p, TideResponses)
    \/ \E p \in Slots : GeoBodyRead(p, GeoResponses)
    \/ \E p \in Slots : WeatherBodyRead(p, WeatherResponses)
    \/ \E p \in Slots : TideBodyRead(p, TideResponses)

SpecSeq == Init /\ [][NextSeq]_vars

----------------------------------------------------------------------------
(* The component and a twin that is given the default place by name, both  *)
(* submitted together and answered with the same responses                 *)

InitTwin == \E c \in BlankCities : InitWith(c, IdleProbe)

TwinSetCity ==
    /\ \E v \in BlankCities : v # city /\ Becomes(onChange(Comp, v))
    /\ UNCHANGED <<bypassed, twin, probe, prev, mini>>

TwinSubmit ==
    /\ ~SubmitDisabled(loading)
    /\ ~SubmitDisabled(twin.loading)
    /\ Becomes(fetchWeatherStart(Comp, 1))
    /\ twin' = fetchWeatherStart(twin, 1)
    /\ UNCHANGED <<bypassed, probe, prev, mini>>

TwinGeoSettles ==
    /\ inv[1].pc = "geo"
    /\ twin.inv[1].pc = "geo"
    /\ \E r \in GeoResponses :
          /\ Becomes(onGeoFetched(Comp, 1, r))
          /\ twin' = onGeoFetched(twin, 1, r)
    /\ UNCHANGED <<bypassed, probe, prev, mini>>

TwinGeoBodyRead ==
    /\ inv[1].pc = "geoBody"
    /\ twin.inv[1].pc = "geoBody"
    /\ \E r \in Bodies(GeoResponses) :
          /\ Becomes(onGeoSettled(Comp, 1, r))
          /\ twin' = onGeoSettled(twin, 1, r)
    /\ UNCHANGED <<bypassed, probe, prev, mini>>

TwinWeatherSettles ==
    /\ inv[1].pc = "weather"
    /\ twin.inv[1].pc = "weather"
    /\ \E r \in WeatherResponses :
          /\ Becomes(onWeatherFetched(Comp, 1, r))
          /\ twin' = onWeatherFetched(twin, 1, r)
    /\ UNCHANGED <<bypassed, probe, prev, mini>>

TwinWeatherBodyRead ==
    /\ inv[1].pc = "weatherBody"
    /\ twin.inv[1].pc = "weatherBody"
    /\ \E r \in Bodies(WeatherResponses) :
          /\ Becomes(onWeatherSettled(Comp, 1, r))
          /\ twin' = onWeatherSettled(twin, 1, r)
    /\ UNCHANGED <<bypassed, probe, prev, mini>>

TwinTideSettles ==
    /\ inv[1].pc = "tide"
    /\ twin.inv[1].pc = "tide"
    /\ \E r \in TideResponses :
          /\ Becomes(onTideFetched(Comp, 1, r))
          /\ twin' = onTideFetched(twin, 1, r)
    /\ UNCHANGED <<bypassed, probe, prev, mini>>

TwinTideBodyRead ==
    /\ inv[1].pc = "tideBody"
    /\ twin.inv[1].pc = "tideBody"
    /\ \E r \in Bodies(TideResponses) :
          /\ Becomes(onTideSettled(Comp, 1, r))
          /\ twin' = onTideSettled(twin, 1, r)
    /\ UNCHANGED <<bypassed, probe, prev, mini>>

NextTwin ==
    \/ TwinSetCity
    \/ TwinSubmit
    \/ TwinGeoSettles
    \/ TwinGeoBodyRead
    \/ TwinWeatherSettles
    \/ TwinWeatherBodyRead
    \/ TwinTideSettles
    \/ TwinTideBodyRead

SpecTwin == InitTwin /\ [][NextTwin]_vars

----------------------------------------------------------------------------
(* The component and the minimal component, given the same input, both     *)
(* submitted together and answered with the same geocoding and weather     *)
(* responses; the tide fetch of the former is answered on its own          *)

MiniSetCity ==
    /\ \E v \in Cities :
          /\ v # city
          /\ Becomes(onChange(Comp, v))
          /\ mini' = miniOnChange(mini, v)
    /\ UNCHANGED <<bypassed, twin, probe, prev>>

MiniSubmit ==
    /\ ~SubmitDisabled(loading)
    /\ ~miniSubmitDisabled(mini.loading)
    /\ Becomes(fetchWeatherStart(Comp, 1))
    /\ mini' = miniFetchWeatherStart(mini)
    /\ UNCHANGED <<bypassed, twin, probe, prev>>

MiniGeoSettles ==
    /\ inv[1].pc = "geo"
    /\ mini.pc = "geo"
    /\ \E r \in GeoResponses :
          /\ Becomes(onGeoFetched(Comp, 1, r))
          /\ mini' = miniOnGeoFetched(mini, r)
    /\ UNCHANGED <<bypassed, twin, probe, prev>>

MiniGeoBodyRead ==
    /\ inv[1].pc = "geoBody"
    /\ mini.pc = "geoBody"
    /\ \E r \in Bodies(GeoResponses) :
          /\ Becomes(onGeoSettled(Comp, 1, r))
          /\ mini' = miniOnGeoSettled(mini, r)
    /\ UNCHANGED <<bypassed, twin, probe, prev>>

MiniWeatherSettles ==
    /\ inv[1].pc = "weather"
    /\ mini.pc = "weather"
    /\ \E r \in WeatherResponses :
          /\ Becomes(onWeatherFetched(Comp, 1, r))
          /\ mini' = miniOnWeatherFetched(mini, r)
    /\ UNCHANGED <<bypassed, twin, probe, prev>>

MiniWeatherBodyRead ==
    /\ inv[1].pc = "weatherBody"
    /\ mini.pc = "weatherBody"
    /\ \E r \in Bodies(WeatherResponses) :
          /\ Becomes(onWeatherSettled(Comp, 1, r))
          /\ mini' = miniOnWeatherSettled(mini, r)
    /\ UNCHANGED <<bypassed, twin, probe, prev>>

NextMini ==
    \/ MiniSetCity
    \/ MiniSubmit
    \/ MiniGeoSettles
    \/ MiniGeoBodyRead
    \/ MiniWeatherSettles
    \/ MiniWeatherBodyRead
    \/ TideSettles(1, TideResponses)
    \/ TideBodyRead(1, TideResponses)

SpecMini == Init /\ [][NextMini]_vars

----------------------------------------------------------------------------
(* The interpreter applied to every code and both values of the flag *)

InitInterp ==
    \E k \in Codes, d \in {0, 1} :
       InitWith(<<>>, [IdleProbe EXCEPT !.code = k, !.isDay = d])

\* lines 197-201: description and icon are computed from the reading
Interpret ==
    /\ ~probe.applied
    /\ probe' = [probe EXCEPT
                   !.description = getWeatherDescription(probe.code),
                   !.icon = getWeatherIcon(probe.code, probe.isDay),
                   !.applied = TRUE]
    /\ UNCHANGED <<city, weatherData, tideData, loading, error, inv, last,
                   bypassed, twin, prev, mini>>

NextInterp == Interpret

SpecInterp == InitInterp /\ [][NextInterp]_vars

----------------------------------------------------------------------------
(* Vocabulary of the properties *)

NotFoundMsg == "City not found. Please check the spelling."
GeoFailedMsg == "Failed to fetch location data"
WeatherFailedMsg == "Failed to fetch weather data"

\* the geocoder answered and found nothing
ZeroMatches(r) ==
    r.settled = "fulfilled" /\ r.ok /\ r.json # null /\ r.json[1] = <<>>

\* a transport failure or a non-2xx answer
FetchFailed(r) == r.settled = "rejected" \/ ~r.ok

\* the weather upstream answered with a reading
WeatherSucceeded(r) ==
    r.settled = "fulfilled" /\ r.ok /\ r.json # null
      /\ r.json[1].current # null

\* the tide upstream failed or returned no events
TideAbsent(r) ==
    \/ FetchFailed(r)
    \/ r.json = null
    \/ r.json[1].extremes = null
    \/ Len(r.json[1].extremes[1]) = 0

\* the 24 codes of the description table
TableCodes ==
    {0, 1, 2, 3, 45, 48, 51, 53, 55, 61, 63, 65, 71, 73, 75, 77,
     80, 81, 82, 85, 86, 95, 96, 99}

Services(calls) == [k \in 1..Len(calls) |-> calls[k].service]

Completed == last # null

\* invocation p awaits a call: its Response, or the body of its Response
AwaitsGeo(p) == inv[p].pc \in {"geo", "geoBody"}
AwaitsWeather(p) == inv[p].pc \in {"weather", "weatherBody"}
AwaitsTide(p) == inv[p].pc \in {"tide", "tideBody"}

----------------------------------------------------------------------------
(* C1: a submission whose geocoding returns zero matches ends in Failure   *)
(* with "City not found. Please check the spelling.": the error cell holds *)
(* that message, weather and tide data are null, loading is false, and the *)
(* only call the submission issued is the geocoding call.                  *)
C1_NotFoundEndsInFailure ==
    Completed /\ ZeroMatches(last[1].resps[1]) =>
        /\ last[1].threw
        /\ error = NotFoundMsg
        /\ weatherData = null
        /\ tideData = null
        /\ ~loading
        /\ Services(last[1].calls) = <<"geocoding">>

C1_Witness ==
    /\ Completed
    /\ ZeroMatches(last[1].resps[1])
    /\ last[1].input = <<"P">>
    /\ last[1].calls[1].q = <<"P">>

(* C2: when geocoding succeeded and the weather fetch fails (transport     *)
(* failure or non-2xx), the submission ends in Failure, no tide call is    *)
(* issued and weather data stays null although the place was resolved.     *)
C2_WeatherFailureEndsInFailure ==
    Completed /\ Len(last[1].resps) >= 2 /\ FetchFailed(last[1].resps[2]) =>
        /\ last[1].threw
        /\ error # ""
        /\ weatherData = null
        /\ tideData = null
        /\ ~loading
        /\ Services(last[1].calls) = <<"geocoding", "forecast">>

C2_Witness ==
    /\ Completed
    /\ Len(last[1].resps) = 2
    /\ last[1].resps[2] = NotOk
    /\ last[1].calls[2].latitude = 48
    /\ weatherData = null

(* C3: when the weather fetch succeeded the submission ends in Success     *)
(* whatever the tide call does: no tide outcome sets the error, and the    *)
(* tides are null exactly when the tide fetch failed or returned no event. *)
C3_TideNeverFails ==
    /\ \A p \in Slots : AwaitsTide(p) => error = ""
    /\ Completed /\ Len(last[1].resps) >= 2
         /\ WeatherSucceeded(last[1].resps[2]) =>
            /\ Len(last[1].resps) = 3
            /\ ~last[1].threw
            /\ error = ""
            /\ weatherData # null
            /\ ~loading
            /\ (tideData = null <=> TideAbsent(last[1].resps[3]))

C3_Witness ==
    /\ Completed
    /\ Len(last[1].resps) = 3
    /\ last[1].resps[3] = NotOk
    /\ weatherData # null
    /\ tideData = null
    /\ error = ""

(* C4: a submission of an empty or blank input behaves as a submission of  *)
(* the text "Marseille": given the same responses, the component and its   *)
(* twin, which is submitted with "Marseille" typed in, issue the same      *)
(* calls, the geocoding query being Marseille, and show the same weather,  *)
(* tides, error and loading flag in every state; the blank input alone     *)
(* sets no error.                                                          *)
C4_BlankIsMarseille ==
    /\ city \in BlankCities
    /\ twin.city = Marseille
    /\ weatherData = twin.weatherData
    /\ tideData = twin.tideData
    /\ error = twin.error
    /\ loading = twin.loading
    /\ inv[1].pc = twin.inv[1].pc
    /\ inv[1].calls = twin.inv[1].calls
    /\ AwaitsGeo(1) =>
          /\ inv[1].input \in BlankCities
          /\ inv[1].calls = <<geoRequest(Marseille)>>
          /\ inv[1].calls[1].q = Marseille
          /\ error = ""
    /\ Completed =>
          /\ twin.last # null
          /\ last[1].calls = twin.last[1].calls
          /\ last[1].message = twin.last[1].message

C4_Witness ==
    /\ Completed
    /\ last[1].input = <<" ", " ">>
    /\ twin.last # null
    /\ twin.last[1].input = Marseille
    /\ ~last[1].threw
    /\ weatherData # null
    /\ weatherData = twin.weatherData

(* C5: when a submission ends in Failure the error cell holds the message  *)
(* of the fetch that failed: the not-found text for zero matches, "Failed  *)
(* to fetch location data" / "Failed to fetch weather data" for a non-2xx  *)
(* geocoding / weather answer, the transport error's own message for a     *)
(* rejected fetch; and while a submission runs no earlier message shows.   *)
C5_MessageOfFailedFetch ==
    /\ loading => error = ""
    /\ Completed /\ last[1].threw =>
         LET n == Len(last[1].resps)
             r == last[1].resps[n] IN
         /\ error # ""
         /\ error = last[1].message
         /\ n \in {1, 2}
         /\ r.settled = "rejected" => error = r.msg
         /\ n = 1 /\ ZeroMatches(r) => error = NotFoundMsg
         /\ n = 1 /\ r = NotOk => error = GeoFailedMsg
         /\ n = 2 /\ r = NotOk => error = WeatherFailedMsg

C5_Witness ==
    /\ Completed
    /\ last[1].threw
    /\ Len(last[1].resps) = 2
    /\ last[1].resps[2] = NotOk
    /\ error = WeatherFailedMsg

(* C6 as stated: in no reachable state are two invocations of the submit   *)
(* handler both between their start and their completion.                  *)
C6_OneInFlight == Cardinality(InFlight) <= 1

(* C6 as amended: fetchWeather does not test for a running invocation, so  *)
(* a submit event that reaches the form while loading is true starts a     *)
(* second, concurrent invocation.  Only the button, disabled while loading *)
(* is true, keeps them apart: two invocations are in flight only after a   *)
(* submit event was delivered past the disabled button, and until then     *)
(* loading is true exactly while the one invocation runs.                  *)
C6_OverlapOnlyPastButton ==
    /\ Cardinality(InFlight) >= 2 => bypassed
    /\ ~bypassed => (loading <=> InFlight # {})

C6_Witness ==
    /\ Cardinality(InFlight) = 2
    /\ bypassed
    /\ inv[1].pc = "tide"
    /\ inv[2].pc = "geo"

(* C7 as stated: no reachable state has loading true and weather data      *)
(* already exposed.                                                        *)
C7_NoWeatherWhileLoading == ~(loading /\ weatherData # null)

(* C7 as amended: within one submission loading stays true until the tide  *)
(* call has ended (fetch settled and, for an ok response, body read), and  *)
(* tide data appears only together with loading                            *)
(* turning false; but the weather data is exposed as soon as the weather   *)
(* fetch has succeeded, so while the tide call is pending loading is true  *)
(* and the weather data is already set (and only then).                    *)
C7_LoadingUntilTideSettled ==
    /\ loading <=> InFlight # {}
    /\ \A p \in Slots : AwaitsTide(p) =>
          loading /\ weatherData # null /\ tideData = null
    /\ loading /\ weatherData # null => \E p \in Slots : AwaitsTide(p)
    /\ tideData # null => ~loading /\ weatherData # null

C7_Witness ==
    /\ loading
    /\ weatherData # null
    /\ weatherData[1].location = "Paris, France"
    /\ inv[1].pc = "tide"

\* the outcome shown: Success, or Failure, and not both
Success == weatherData # null /\ error = ""
Failure == error # "" /\ weatherData = null

(* C8: if every issued network call eventually settles, every submission   *)
(* eventually leaves Loading, ending in exactly one of Success and Failure *)
(* with loading false; the submit button is then enabled again, and a      *)
(* further submission re-enters Loading.                                   *)
C8_EverySubmissionEnds ==
    /\ loading ~> (~loading /\ Completed /\ (Success # Failure))
    /\ [](Completed => ~loading /\ (Success # Failure)
                          /\ ~SubmitDisabled(loading) /\ ENABLED ClickSubmit)
    /\ [][Completed /\ ~Completed' => loading' /\ ~Success' /\ ~Failure']_vars

C8_Witness ==
    /\ Completed
    /\ ~loading
    /\ Failure
    /\ last[1].input = <<"P", "P">>
    /\ ENABLED ClickSubmit

(* C9: getWeatherDescription is total: each of the 24 table codes gives    *)
(* its fixed description (1 gives "Mainly clear"), every other integer     *)
(* code gives exactly "Unknown".                                           *)
C9_DescribeIsTotal ==
    /\ Cardinality(TableCodes) = 24
    /\ probe.applied =>
         /\ probe.code \notin TableCodes => probe.description = "Unknown"
         /\ probe.code \in TableCodes =>
               /\ probe.description = descriptions(probe.code)
               /\ probe.description \notin {"", "Unknown"}
         /\ probe.code = 0 => probe.description = "Clear sky"
         /\ probe.code = 1 => probe.description = "Mainly clear"
         /\ probe.code = 48 => probe.description = "Depositing rime fog"
         /\ probe.code = 99 => probe.description = "Thunderstorm with heavy hail"

C9_Witness ==
    /\ probe.applied
    /\ probe.code = 4
    /\ probe.description = "Unknown"

(* C10: the icon depends on the day/night flag only for the clear and the  *)
(* partly-cloudy class: for code 0 day and night differ, for code 3 by day *)
(* it is the partly-cloudy day symbol and not the clear-sky day symbol,    *)
(* for every code >= 4 day and night give the same symbol, and every code  *)
(* >= 95 gives the thunderstorm symbol.                                    *)
C10_IconDayNight ==
    probe.applied =>
       LET other == getWeatherIcon(probe.code, 1 - probe.isDay) IN
       /\ probe.code = 0 =>
             /\ probe.icon # other
             /\ probe.icon = IF probe.isDay = 1 THEN SymSun ELSE SymMoon
       /\ probe.code = 3 /\ probe.isDay = 1 =>
             /\ probe.icon = SymSunCloud
             /\ probe.icon # getWeatherIcon(0, 1)
       /\ probe.code >= 4 => probe.icon = other
       /\ probe.code >= 95 => probe.icon = SymStorm
       /\ probe.icon # other => probe.code <= 3

C10_Witness ==
    /\ probe.applied
    /\ probe.code = 96
    /\ probe.isDay = 0
    /\ probe.icon = SymStorm

----------------------------------------------------------------------------
(* Overlapping submissions *)

\* what the invocation with log l sets when it runs to its end: the weather
\* record and the tides
WeatherOf(l) ==
    IF Len(l.resps) >= 2 /\ WeatherSucceeded(l.resps[2])
    THEN weatherResult(l.resps[2], getCoordinates(l.resps[1]).value[1]).value
    ELSE null

TidesOf(l) ==
    IF Len(l.resps) = 3 THEN fetchTideData(l.resps[3]).value[1] ELSE null

\* a step in which an invocation starts, one in which invocation p sets the
\* weather, one in which an invocation ends
Starts == \E q \in Slots : inv[q].pc = "idle" /\ inv'[q].pc = "geo"
SetsWeather(p) == AwaitsWeather(p) /\ inv'[p].pc = "tide"
Ends(p) == inv[p].pc # "idle" /\ inv'[p].pc = "idle"

(* C11 as stated: once every request has finished, the displayed weather,  *)
(* tides and error are all those of the request that finished last.        *)
C11_LastFinisherOwnsDisplay ==
    InFlight = {} /\ Completed =>
        /\ weatherData = WeatherOf(last[1])
        /\ tideData = TidesOf(last[1])
        /\ error = last[1].message

(* C11 as amended: a submission that starts while another is in flight     *)
(* cancels nothing, and every write of either lands when it is made, the   *)
(* last write to each cell winning.  The request that finishes last leaves *)
(* its own last write (its tides, or its error message) and loading false, *)
(* but the other cells can hold what the other request wrote or cleared:   *)
(* results of the earlier submission can be displayed after the later one  *)
(* has finished, and weather, tides and error need not come from one       *)
(* request.                                                                *)
C11_LastWriteWins ==
    /\ [](InFlight = {} /\ Completed =>
            /\ ~loading
            /\ last[1].threw => error = last[1].message
            /\ ~last[1].threw => tideData = TidesOf(last[1]))
    /\ [][/\ Starts => \A p \in InFlight : inv'[p] = inv[p]
          /\ \A p \in Slots :
               /\ SetsWeather(p) =>
                    /\ weatherData' # null
                    /\ weatherData'[1].location = inv[p].location[1].name
               /\ Ends(p) =>
                    /\ last' # null
                    /\ loading' = FALSE
                    /\ last'[1].threw => error' = last'[1].message
                    /\ ~last'[1].threw => tideData' = TidesOf(last'[1])
         ]_vars

\* the tides of the earlier submission displayed, without weather, after
\* the later one started and finished in between
C11_Witness ==
    /\ InFlight = {}
    /\ Completed
    /\ bypassed
    /\ ~last[1].threw
    /\ tideData # null
    /\ weatherData = null

----------------------------------------------------------------------------
(* Clearing at the start of a submission *)

(* C12: every start of a submission sets loading and clears weather data,  *)
(* tide data and error, whatever was displayed before; so a submission     *)
(* that fails after an earlier one succeeded leaves no weather and no      *)
(* tides of the earlier one.                                               *)
C12_SubmissionClears ==
    /\ [][Starts =>
            /\ loading'
            /\ weatherData' = null
            /\ tideData' = null
            /\ error' = ""]_vars
    /\ [](\A p \in Slots : AwaitsGeo(p) =>
            /\ loading
            /\ weatherData = null
            /\ tideData = null
            /\ error = "")
    /\ [](Completed /\ last[1].threw =>
            /\ weatherData = null
            /\ tideData = null)

\* a failed submission that was started on the display of a successful one
C12_Witness ==
    /\ prev = "Success"
    /\ Completed
    /\ last[1].threw
    /\ error # ""
    /\ weatherData = null

----------------------------------------------------------------------------
(* Order of the outbound calls *)

CallOrder == <<"geocoding", "forecast", "tides">>

\* the geocoding upstream answered with at least one match
GeoSucceeded(r) ==
    r.settled = "fulfilled" /\ r.ok /\ r.json # null /\ Len(r.json[1]) > 0

\* the calls issued and the responses received by one invocation, while it
\* runs (open) or when it has ended
CallsInOrder(calls, resps, open) ==
    /\ Len(calls) = Len(resps) + (IF open THEN 1 ELSE 0)
    /\ Len(calls) <= Len(CallOrder)
    /\ Services(calls) = SubSeq(CallOrder, 1, Len(calls))
    /\ Len(calls) >= 2 =>
          /\ GeoSucceeded(resps[1])
          /\ calls[2].latitude = parseFloat(resps[1].json[1][1].lat)
          /\ calls[2].longitude = parseFloat(resps[1].json[1][1].lon)
    /\ Len(calls) = 3 =>
          /\ WeatherSucceeded(resps[2])
          /\ calls[3].lat = calls[2].latitude
          /\ calls[3].lon = calls[2].longitude
    /\ Len(resps) >= 2 /\ WeatherSucceeded(resps[2]) => Len(calls) = 3

(* C13: the calls of a submission are a prefix of geocode, weather, tide,  *)
(* each issued once and never again; the weather call is issued only after *)
(* the geocode call succeeded, the tide call only after the weather call   *)
(* succeeded and for the point of the weather call, and the tide call is   *)
(* always issued when the weather fetch succeeded.                         *)
C13_CallsArePrefix ==
    /\ [](\A p \in InFlight : CallsInOrder(inv[p].calls, inv[p].resps, TRUE))
    /\ [](Completed => CallsInOrder(last[1].calls, last[1].resps, FALSE))
    /\ [][\A p \in Slots :
            inv[p].pc # "idle" /\ inv'[p].pc # "idle" /\ inv'[p] # inv[p] =>
               \/ /\ inv'[p].calls = inv[p].calls
                  /\ inv'[p].resps = inv[p].resps
               \/ /\ Len(inv'[p].calls) = Len(inv[p].calls) + 1
                  /\ SubSeq(inv'[p].calls, 1, Len(inv[p].calls))
                        = inv[p].calls
                  /\ Len(inv'[p].resps) = Len(inv[p].resps) + 1
         ]_vars

\* a completed submission that issued all three calls, for a point whose
\* latitude and longitude differ
C13_Witness ==
    /\ Completed
    /\ Services(last[1].calls) = CallOrder
    /\ last[1].calls[3].lat = last[1].calls[2].latitude
    /\ last[1].calls[3].lat # last[1].calls[3].lon

----------------------------------------------------------------------------
(* The icon of each range of codes *)

\* the symbol of the listed range that holds the code, the thermometer for a
\* code in none of them
RangeSymbol(code, isDay) ==
    IF code = 0 THEN (IF isDay = 1 THEN SymSun ELSE SymMoon)
    ELSE IF code \in 1..3 THEN (IF isDay = 1 THEN SymSunCloud ELSE SymMoon)
    ELSE IF code \in 4..48 THEN SymFog
    ELSE IF code \in 49..55 THEN SymSunRain
    ELSE IF code \in 56..65 THEN SymRain
    ELSE IF code \in 66..77 THEN SymSnow
    ELSE IF code \in 78..82 THEN SymRain
    ELSE IF code \in 83..86 THEN SymSnow
    ELSE IF code >= 95 THEN SymStorm
    ELSE SymThermometer

(* C14 as stated: for every integer code the icon is the symbol of the     *)
(* listed range that holds the code, and the thermometer for a code in     *)
(* none of the ranges, which are exactly the codes 87..94.                 *)
C14_IconOfListedRange ==
    probe.applied =>
       /\ probe.icon = RangeSymbol(probe.code, probe.isDay)
       /\ probe.icon = SymThermometer <=> probe.code \in 87..94

(* C14 as amended: for every code from 0 on the icon is the symbol of the  *)
(* listed range that holds the code, and the thermometer exactly for       *)
(* 87..94; a negative code is in none of the ranges, yet its icon is not   *)
(* the thermometer but the partly-cloudy symbol (day or night variant).    *)
C14_IconOfRangeFromZero ==
    probe.applied =>
       /\ probe.code >= 0 =>
             /\ probe.icon = RangeSymbol(probe.code, probe.isDay)
             /\ probe.icon = SymThermometer <=> probe.code \in 87..94
       /\ probe.code < 0 =>
             probe.icon = IF probe.isDay = 1 THEN SymSunCloud ELSE SymMoon

\* a negative code shown as partly cloudy
C14_Witness ==
    /\ probe.applied
    /\ probe.code < 0
    /\ probe.isDay = 1
    /\ probe.icon = SymSunCloud

----------------------------------------------------------------------------
(* The tide events kept *)

Min(a, b) == IF a < b THEN a ELSE b

(* C15: when the tide upstream returns a non-empty extremes list of n      *)
(* events, the tide data are its first min(6, n) events in the order       *)
(* returned, not re-sorted, each with its height and its instant (the      *)
(* epoch seconds as the milliseconds of a Date) unchanged, and of kind     *)
(* High exactly when the upstream label is "High", Low for any other.      *)
C15_FirstSixInOrder ==
    Completed /\ Len(last[1].resps) = 3 /\ ~TideAbsent(last[1].resps[3]) =>
       LET ex == last[1].resps[3].json[1].extremes[1] IN
       /\ tideData # null
       /\ Len(tideData[1]) = Min(6, Len(ex))
       /\ \A i \in 1..Len(tideData[1]) :
            /\ tideData[1][i].height = ex[i].height
            /\ tideData[1][i].time = ex[i].dt * 1000
            /\ tideData[1][i].type \in {"High Tide", "Low Tide"}
            /\ tideData[1][i].type = "High Tide" <=> ex[i].type = "High"

\* seven events returned latest first, the first labelled "high": six are
\* kept, in that order, the first as a low tide
C15_Witness ==
    /\ Completed
    /\ Len(last[1].resps) = 3
    /\ ~TideAbsent(last[1].resps[3])
    /\ Len(last[1].resps[3].json[1].extremes[1]) = 7
    /\ tideData # null
    /\ Len(tideData[1]) = 6
    /\ tideData[1][1].time > tideData[1][2].time
    /\ last[1].resps[3].json[1].extremes[1][1].type = "high"
    /\ tideData[1][1].type = "Low Tide"

----------------------------------------------------------------------------
(* The cells taken together *)

(* C16: when each submission starts only after the previous one has        *)
(* completed, no reachable state has both a non-empty error message and    *)
(* non-null weather data.                                                  *)
C16_ErrorExcludesWeather == ~(error # "" /\ weatherData # null)

\* weather displayed by a submission that was started on the error of a
\* failed one
C16_Witness ==
    /\ prev = "Failure"
    /\ weatherData # null
    /\ error = ""

\* the tide data are there with weather data, and when they are those of
\* the submission that ended last, the weather data are for its point
TidesWithTheirWeather ==
    tideData # null =>
       /\ weatherData # null
       /\ Completed /\ ~last[1].threw =>
             /\ weatherData[1].lat = last[1].calls[3].lat
             /\ weatherData[1].lon = last[1].calls[3].lon

(* C17 as stated: in every reachable state, also after overlapping         *)
(* submissions, non-null tide data come with non-null weather data written *)
(* by the same submission, for the same resolved point.                    *)
C17_TidesBelongToWeather == TidesWithTheirWeather

(* C17 as amended: in every state reached without overlapping submissions, *)
(* non-null tide data come with non-null weather data written by the same  *)
(* submission, for the same resolved point.  With overlapping submissions  *)
(* tide data can be non-null while weather data are null, or be those of   *)
(* another submission and another point than the weather data.             *)
C17_TidesBelongToWeatherAlone == ~bypassed => TidesWithTheirWeather

\* tides displayed with the weather of their own point by a submission that
\* ran alone
C17_Witness ==
    /\ ~bypassed
    /\ Completed
    /\ tideData # null
    /\ weatherData # null
    /\ weatherData[1].lat = last[1].calls[3].lat
    /\ weatherData[1].lat # weatherData[1].lon

----------------------------------------------------------------------------
(* The two variants of the component *)

\* the fields of the weather data that both variants have
SharedFields(w) ==
    [location |-> w.location, temperature |-> w.temperature,
     feelsLike |-> w.feelsLike, humidity |-> w.humidity,
     windSpeed |-> w.windSpeed, pressure |-> w.pressure,
     weatherCode |-> w.weatherCode, isDay |-> w.isDay,
     description |-> w.description, icon |-> w.icon]

SharedWeather(w) == IF w = null THEN null ELSE Some(SharedFields(w[1]))

(* C18: given the same input and the same geocoding and weather responses  *)
(* as single submissions, the tide-enabled and the minimal component issue *)
(* the same geocoding and weather calls and end with the same error        *)
(* message, the same weather fields (location, readings, description,      *)
(* icon) and loading false, whatever the tide upstream answers; the        *)
(* minimal one shows these weather fields already while the other awaits   *)
(* its tides.                                                              *)
C18_VariantsAgree ==
    /\ city = mini.city
    /\ Completed /\ mini.done =>
          /\ error = mini.error
          /\ SharedWeather(weatherData) = mini.weatherData
          /\ ~loading
          /\ ~mini.loading
          /\ mini.calls =
                SubSeq(last[1].calls, 1, Min(2, Len(last[1].calls)))
    /\ AwaitsTide(1) =>
          /\ mini.done
          /\ mini.error = ""
          /\ error = ""
          /\ SharedWeather(weatherData) = mini.weatherData

\* both ended in Success with the same weather, the tide-enabled one with
\* tides
C18_Witness ==
    /\ Completed
    /\ mini.done
    /\ tideData # null
    /\ weatherData # null
    /\ mini.weatherData # null
    /\ mini.weatherData[1].location = weatherData[1].location

====
